---- MODULE Spec2Model ----
(***************************************************************************)
(* Model of the real-time feed hook of the ETF dashboard front end:        *)
(*   frontend/src/hooks/useWsFeed.js   socket lifecycle, envelope          *)
(*                                     normalisation, aggregation, history *)
(*   frontend/src/utils/sampling.js    decimateRecency                     *)
(*   frontend/src/utils/format.js      toMs                                *)
(***************************************************************************)
EXTENDS Integers, Sequences, FiniteSets, TLC

(***************************************************************************)
(* JavaScript values.  Every value is a record of one shape so that values *)
(* of different JavaScript types can be compared: k is the type tag, n the *)
(* number (k = "num") and s the string (k = "str").                        *)
(***************************************************************************)
Undef == [k |-> "undef", n |-> 0, s |-> ""]
Null == [k |-> "null", n |-> 0, s |-> ""]
NaN == [k |-> "nan", n |-> 0, s |-> ""]
Num(n) == [k |-> "num", n |-> n, s |-> ""]
Str(s) == [k |-> "str", n |-> 0, s |-> s]
Bool(b) == [k |-> "bool", n |-> IF b THEN 1 ELSE 0, s |-> ""]

\* an object is a function from its own property names to values
EmptyObj == [x \in {} |-> Undef]
Get(o, key) == IF key \in DOMAIN o THEN o[key] ELSE Undef

\* a ?? b
Nullish(a, b) == IF a.k \in {"undef", "null"} THEN b ELSE a

\* truthiness, as used by a || b and by if (sym && ...)
Truthy(v) ==
    CASE v.k = "undef" -> FALSE
      [] v.k = "null" -> FALSE
      [] v.k = "nan" -> FALSE
      [] v.k = "num" -> v.n # 0
      [] v.k = "str" -> v.s # ""
      [] v.k = "bool" -> v.n = 1
      [] OTHER -> TRUE

\* a || b that prefers its right operand
OrRight(a, b) == IF Truthy(b) THEN b ELSE a

\* a || b
Or(a, b) == IF Truthy(a) THEN a ELSE b

\* Number.isFinite(v): a number that is neither NaN nor infinite
IsFinite(v) == v.k = "num"

\* the decimal strings the model's documents carry, with their numeric value
NumericStrings == {<<"7", 7>>, <<"12", 12>>}

\* Number(v)
ToNumber(v) ==
    CASE v.k = "undef" -> NaN
      [] v.k = "null" -> Num(0)
      [] v.k = "nan" -> NaN
      [] v.k = "num" -> v
      [] v.k = "bool" -> Num(v.n)
      [] v.k = "str" ->
            IF v.s = "" THEN Num(0)
            ELSE IF \E p \in NumericStrings : p[1] = v.s
                 THEN Num((CHOOSE p \in NumericStrings : p[1] = v.s)[2])
                 ELSE NaN
      [] OTHER -> NaN

\* the date-time strings the model's documents carry, with their epoch ms
DateStrings == {<<"1970-01-01T00:00:00.002Z", 2>>}

\* Date.parse(s)
DateParse(s) ==
    IF \E p \in DateStrings : p[1] = s
    THEN Num((CHOOSE p \in DateStrings : p[1] = s)[2])
    ELSE NaN

\* toMs(t) = typeof t === "number" ? t : Date.parse(t); called with a number
\* or a string only
toMs(t) == IF t.k \in {"num", "nan"} THEN t ELSE DateParse(t.s)

\* Math.max(a, b) of two numbers
MathMax(a, b) ==
    IF a.k = "nan" \/ b.k = "nan" THEN NaN
    ELSE Num(IF a.n >= b.n THEN a.n ELSE b.n)

\* a >= b of two numbers (false when either is NaN)
NumGE(a, b) == a.k = "num" /\ b.k = "num" /\ a.n >= b.n

\* StartsWith that takes every topic for a price topic
StartsWithAnything(s, prefix) == prefix = "prices."

\* topic.startsWith(prefix), over the topic strings of the model
PricesTopics == {"prices.tick", "prices."}
InavTopics == {"inav.tick"}
StartsWith(s, prefix) ==
    CASE prefix = "prices." -> s \in PricesTopics
      [] prefix = "inav." -> s \in InavTopics
      [] OTHER -> FALSE

\* the property key a value names when used as [sym]
SmallNumberKeys == {<<1, "1">>, <<7, "7">>}
ToPropertyKey(v) ==
    CASE v.k = "str" -> v.s
      [] v.k = "num" ->
            IF \E p \in SmallNumberKeys : p[1] = v.n
            THEN (CHOOSE p \in SmallNumberKeys : p[1] = v.n)[2]
            ELSE "number"
      [] v.k = "bool" -> IF v.n = 1 THEN "true" ELSE "false"
      [] OTHER -> v.k

(***************************************************************************)
(* State.                                                                  *)
(***************************************************************************)
VARIABLES
    rows,       \* useState rows: symbol -> InstrumentRow
    lastAnyTs,  \* useState lastAnyTs
    debug,      \* useState debug: count and lastError (lastTopic and lastRaw
                \* are display strings no handler reads)
    status,     \* useState status
    histRef,    \* histRef.current: symbol -> array of points
    latestRef,  \* latestRef.current: symbol -> last known fields
    pushed,     \* per symbol, the calls of pushPoint in call order: the patch
                \* argument and the point given to buf.push(point)
    wsRef,      \* readyState of wsRef.current, "none" before the first socket
    backoffRef, \* backoffRef.current: attempt, timer (pending or not), and
                \* the delay the pending timer was set with
    cancelled,  \* the effect's cancelled flag
    sockets,    \* number of new WebSocket(wsUrl) calls so far
    cycles,     \* failed/closed cycles since the last open event was handled
    decIn,      \* decimateRecency: the array argument
    decNow,     \* decimateRecency: the Date.now() it reads
    decOut,     \* decimateRecency: the array it returned
    decPc,      \* "idle" until decimateRecency has returned, then "done"
    decAlias,   \* which array the returned one is: "fresh" for an array the
                \* call created, else the name of the array it was given
    pending,    \* the Blob frames whose onmessage call awaits payload.text(),
                \* in arrival order
    ticking,    \* useRecencySeries: the interval of setInterval is set
    location,   \* window.location: the ws query parameter, protocol, host
    wsUrl,      \* the memoised endpoint
    wsTarget,   \* the URL given to the latest new WebSocket(...)
    live,       \* the number of sockets of the hook that are connecting or open
    timeouts,   \* the number of timeouts of the hook that are pending
    normalized  \* one document msg and, once the envelope normalization has
                \* run on it, its topic, dataRaw and ts

feedVars == <<rows, lastAnyTs, debug, histRef, latestRef, pushed>>
connVars == <<status, wsRef, backoffRef, cancelled, sockets, cycles>>
decVars == <<decIn, decNow, decOut, decPc, decAlias>>
vars == <<rows, lastAnyTs, debug, status, histRef, latestRef, pushed, wsRef,
          backoffRef, cancelled, sockets, cycles, decIn, decNow, decOut,
          decPc, decAlias, pending, ticking, location, wsUrl, wsTarget,
          normalized, live, timeouts>>
browserVars == <<live, timeouts>>
pageVars == <<location, wsUrl>>

(***************************************************************************)
(* Aggregation: pushPoint and the per-document body of ws.onmessage.       *)
(***************************************************************************)
\* const MAX_POINTS = 2 * 60 * 60 in the source; the model takes a capacity
\* that the few documents of a run can exceed
MAX_POINTS == 2

\* prev[sym] || {}
EmptyRow ==
    [lastPrice |-> Undef, inav |-> Undef, bandUpper |-> Undef,
     bandLower |-> Undef, lastTs |-> Undef, priceTs |-> Undef,
     inavTs |-> Undef]

\* latestRef.current[sym] = {}
EmptyLatest == [price |-> Undef, inav |-> Undef, bu |-> Undef, bl |-> Undef]

\* an assignment that replaces the whole object by { [key]: v }
SetKeyAlone(obj, key, v) == [x \in {key} |-> v]

\* { ...obj, [key]: v }
SetKey(obj, key, v) ==
    [x \in DOMAIN obj \cup {key} |-> IF x = key THEN v ELSE obj[x]]

\* PatchField without the guards: latest.f = patch.f
PatchFieldOverwrite(old, new) == new

\* if (patch.f != null && Number.isFinite(patch.f)) latest.f = +patch.f
PatchField(old, new) ==
    IF new.k \notin {"undef", "null"} /\ IsFinite(new) THEN new ELSE old

\* the point pushPoint builds from the patched latest fields
MakePoint(t, latest) ==
    [t |-> t, price |-> latest.price, inav |-> latest.inav,
     bu |-> latest.bu, bl |-> latest.bl]

\* Splice cutting at the wrong end: buf.splice(MAX_POINTS)
SpliceKeepsOldest(buf) ==
    IF Len(buf) > MAX_POINTS THEN SubSeq(buf, 1, MAX_POINTS) ELSE buf

\* if (buf.length > MAX_POINTS) buf.splice(0, buf.length - MAX_POINTS)
Splice(buf) ==
    IF Len(buf) > MAX_POINTS
    THEN SubSeq(buf, Len(buf) - MAX_POINTS + 1, Len(buf))
    ELSE buf

\* the refs a handler mutates and the state it sets, as one record
FeedState ==
    [rows |-> rows, lastAnyTs |-> lastAnyTs, count |-> debug.count,
     histRef |-> histRef, latestRef |-> latestRef, pushed |-> pushed]

pushPoint(st, sym, t, patch) ==
    LET old == IF sym \in DOMAIN st.latestRef THEN st.latestRef[sym]
               ELSE EmptyLatest
        latest == [price |-> PatchField(old.price, patch.price),
                   inav |-> PatchField(old.inav, patch.inav),
                   bu |-> PatchField(old.bu, patch.bu),
                   bl |-> PatchField(old.bl, patch.bl)]
        point == MakePoint(t, latest)
        buf == IF sym \in DOMAIN st.histRef THEN st.histRef[sym] ELSE <<>>
        log == IF sym \in DOMAIN st.pushed THEN st.pushed[sym] ELSE <<>>
    IN  [st EXCEPT !.latestRef = SetKey(@, sym, latest),
                   !.histRef = SetKey(@, sym, Splice(Append(buf, point))),
                   !.pushed = SetKey(@, sym,
                                     Append(log, [patch |-> patch,
                                                  point |-> point]))]

(***************************************************************************)
(* A chunk of a frame is a string that JSON.parse rejects (kind "bad") or  *)
(* parses to null (kind "null") or to an object (kind "obj").  An object   *)
(* has its scalar top-level properties in top, and its data and payload    *)
(* properties apart: each is absent, null, a primitive or an object.       *)
(***************************************************************************)
NoData == [k |-> "undef", f |-> EmptyObj]
NullData == [k |-> "null", f |-> EmptyObj]
PrimData == [k |-> "prim", f |-> EmptyObj]
ObjData(f) == [k |-> "obj", f |-> f]

BadChunk == [kind |-> "bad", top |-> EmptyObj, data |-> NoData, payload |-> NoData]
NullChunk == [kind |-> "null", top |-> EmptyObj, data |-> NoData, payload |-> NoData]
\* a number or a boolean: every property read of it gives undefined, and
\* { ...msg } has no property
PrimChunk == [kind |-> "prim", top |-> EmptyObj, data |-> NoData, payload |-> NoData]
ObjChunk(top, data, payload) ==
    [kind |-> "obj", top |-> top, data |-> data, payload |-> payload]

\* msg.topic || msg.type || msg.channel || ""
Topic(msg) ==
    Or(Or(Or(Get(msg.top, "topic"), Get(msg.top, "type")),
          Get(msg.top, "channel")), Str(""))

\* msg.payload ?? msg.data ?? (msg without topic, type, channel, version)
DataRawPayloadFirst(msg) ==
    IF msg.payload.k \notin {"undef", "null"} THEN msg.payload
    ELSE IF msg.data.k \notin {"undef", "null"} THEN msg.data
    ELSE ObjData([x \in DOMAIN msg.top \ {"topic", "type", "channel", "version"}
                    |-> msg.top[x]])

\* msg.data ?? msg.payload ?? (msg without topic, type, channel, version)
DataRaw(msg) ==
    IF msg.data.k \notin {"undef", "null"} THEN msg.data
    ELSE IF msg.payload.k \notin {"undef", "null"} THEN msg.payload
    ELSE ObjData([x \in DOMAIN msg.top \ {"topic", "type", "channel", "version"}
                    |-> msg.top[x]])

\* dataRaw.key
Field(dataRaw, key) == Get(dataRaw.f, key)

\* tsVal and ts
TsOf(msg, nowT) ==
    LET tsVal == Nullish(Nullish(Field(DataRaw(msg), "ts"), Get(msg.top, "ts")),
                         nowT)
    IN  IF tsVal.k \in {"str", "num", "nan"} THEN toMs(tsVal) ELSE nowT

\* Math.max(ts, prev[sym]?.lastTs || 0)
NextLastTs(ts, prevRow) == MathMax(ts, Or(prevRow.lastTs, Num(0)))

\* a row built without the spread of the previous one
PrevRowDropped(prev, sym) == EmptyRow

\* ...(prev[sym] || {})
PrevRow(prev, sym) == IF sym \in DOMAIN prev THEN prev[sym] ELSE EmptyRow

\* the prices.* branch
PricesBranch(st, dataRaw, ts) ==
    LET symV == Or(Or(Or(Field(dataRaw, "security_id"), Field(dataRaw, "symbol")),
                      Field(dataRaw, "ticker")), Str("UNKNOWN"))
        sym == ToPropertyKey(symV)
        price == ToNumber(Nullish(Nullish(Field(dataRaw, "last"),
                                          Field(dataRaw, "mid")),
                                  Field(dataRaw, "price")))
        prev == PrevRow(st.rows, sym)
    IN  IF Truthy(symV) /\ IsFinite(price)
        THEN pushPoint(
               [st EXCEPT !.rows = SetKey(@, sym,
                    [prev EXCEPT !.lastPrice = price,
                                 !.lastTs = NextLastTs(ts, prev),
                                 !.priceTs = ts])],
               sym, ts,
               [price |-> price, inav |-> Undef, bu |-> Undef, bl |-> Undef])
        ELSE st

\* the inav.* branch
InavBranch(st, dataRaw, ts) ==
    LET symV == Or(Or(Or(Or(Field(dataRaw, "etf_id"),
                            Field(dataRaw, "security_id")),
                         Field(dataRaw, "symbol")),
                      Field(dataRaw, "ticker")), Str("UNKNOWN"))
        sym == ToPropertyKey(symV)
        inav == ToNumber(Nullish(Field(dataRaw, "inav"), Field(dataRaw, "value")))
        bandU == ToNumber(Nullish(Field(dataRaw, "band_upper"),
                                  Field(dataRaw, "bandUpper")))
        bandL == ToNumber(Nullish(Field(dataRaw, "band_lower"),
                                  Field(dataRaw, "bandLower")))
        prev == PrevRow(st.rows, sym)
    IN  IF Truthy(symV) /\ IsFinite(inav)
        THEN pushPoint(
               [st EXCEPT !.rows = SetKey(@, sym,
                    [prev EXCEPT !.inav = inav,
                                 !.bandUpper = IF IsFinite(bandU) THEN bandU
                                               ELSE prev.bandUpper,
                                 !.bandLower = IF IsFinite(bandL) THEN bandL
                                               ELSE prev.bandLower,
                                 !.lastTs = NextLastTs(ts, prev),
                                 !.inavTs = ts])],
               sym, ts,
               [price |-> Undef, inav |-> inav,
                bu |-> IF IsFinite(bandU) THEN bandU ELSE Undef,
                bl |-> IF IsFinite(bandL) THEN bandL ELSE Undef])
        ELSE st

\* the body of the for loop over chunks: the state after the chunk, and
\* whether the body threw
Chunk(st, chunk, nowT) ==
    IF chunk.kind = "bad" THEN [st |-> st, threw |-> TRUE]       \* JSON.parse
    ELSE IF chunk.kind = "null" THEN [st |-> st, threw |-> TRUE] \* msg.topic
    ELSE
      LET topic == Topic(chunk)
          dataRaw == DataRaw(chunk)
          ts == TsOf(chunk, nowT)
          seen == [st EXCEPT !.lastAnyTs = ts, !.count = @ + 1]
      IN  IF topic.k # "str" THEN [st |-> seen, threw |-> TRUE] \* startsWith
          ELSE IF StartsWith(topic.s, "prices.")
               THEN [st |-> PricesBranch(seen, dataRaw, ts), threw |-> FALSE]
          ELSE IF StartsWith(topic.s, "inav.")
               THEN [st |-> InavBranch(seen, dataRaw, ts), threw |-> FALSE]
          ELSE [st |-> seen, threw |-> FALSE]

\* for (const chunk of chunks) inside try { } catch (e) { setDebug(lastError) }:
\* a throw leaves the loop
RECURSIVE Chunks(_, _, _)
Chunks(st, chunks, nowT) ==
    IF chunks = <<>> THEN [st |-> st, threw |-> FALSE]
    ELSE LET r == Chunk(st, Head(chunks), nowT)
         IN  IF r.threw THEN r ELSE Chunks(r.st, Tail(chunks), nowT)

(***************************************************************************)
(* Connection life cycle: the effect of useWsFeed.                         *)
(***************************************************************************)
MaxSockets == 9

RECURSIVE Pow2(_)
Pow2(a) == IF a = 0 THEN 1 ELSE 2 * Pow2(a - 1)

Min(a, b) == IF a <= b THEN a ELSE b

\* Delay with the exponent one too low: 250, 500, 1000, ...
DelayFromAttemptZero(a) == Min(30000, Pow2(a - 1) * 250)

\* Math.min(30000, Math.round(Math.pow(2, a) * 250)); the product is a whole
\* number for every a >= 0, which Math.round leaves as it is
Delay(a) == Min(30000, Pow2(a) * 250)

\* scheduleReconnect that gives up after the third consecutive cycle
scheduleReconnectLimited(state) ==
    IF cancelled \/ state.attempt >= 3 THEN state
    ELSE LET a == state.attempt + 1
         IN  [attempt |-> a, timer |-> TRUE, delay |-> Delay(a)]

\* scheduleReconnect(state, connectFn): the new value of state
scheduleReconnect(state) ==
    IF cancelled THEN state
    ELSE LET a == state.attempt + 1
         IN  [attempt |-> a, timer |-> TRUE, delay |-> Delay(a)]

\* ws.close() on a socket in the given readyState
CloseSocket(ws) == IF ws \in {"connecting", "open"} THEN "closing" ELSE ws

\* connect(); threw says whether new WebSocket(wsUrl) threw
\* clearTimeout(handle): the pending timeouts without the one the handle
\* names, if that one is pending
clearTimeout(n, handlePending) == IF handlePending THEN n - 1 ELSE n

\* the live sockets once ws has closed or ws.close() was called
Closed(n, ws) == IF ws \in {"connecting", "open"} THEN n - 1 ELSE n

connect(threw) ==
    /\ sockets' = sockets + 1
    /\ wsTarget' = wsUrl
    /\ live' = IF threw THEN live ELSE live + 1
    /\ timeouts' = IF threw THEN clearTimeout(timeouts, backoffRef.timer) + 1
                   ELSE clearTimeout(timeouts, backoffRef.timer)
    /\ IF threw
       THEN /\ debug' = [debug EXCEPT !.lastError = "constructor"]
            /\ status' = "closed"
            /\ backoffRef' = scheduleReconnect([backoffRef EXCEPT !.timer = FALSE])
            /\ cycles' = cycles + 1
            /\ UNCHANGED wsRef
       ELSE /\ status' = "connecting"
            /\ backoffRef' = [backoffRef EXCEPT !.timer = FALSE]
            /\ wsRef' = "connecting"
            /\ UNCHANGED <<debug, cycles>>

\* window.location of a page: the value of searchParams.get("ws") (null
\* without the parameter), the protocol and the host
Location(ws, protocol, host) == [ws |-> ws, protocol |-> protocol, host |-> host]

\* the page of the development server, without the ws parameter
DevPage == Location(Null, "http:", "localhost:5173")

\* the useMemo callback: Resolve WS URL
ResolveWsUrl(loc) ==
    IF Truthy(loc.ws)
    THEN loc.ws.s
    ELSE IF loc.protocol = "https:"
         THEN "wss://" \o loc.host \o "/stream"
         ELSE "ws://localhost:9080/stream"

\* a memo that is computed again on every render
useMemoRecomputed(memo, fresh) == fresh

\* useMemo(..., []) on a later render: the dependency list is empty, the
\* memoised value is kept
useMemo(memo, fresh) == memo

\* the state after the effect has run on the page loc: connect() was
\* called once
Mounted(loc) ==
    /\ location = loc
    /\ wsUrl = ResolveWsUrl(loc)
    /\ wsTarget = ResolveWsUrl(loc)
    /\ rows = EmptyObj
    /\ lastAnyTs = Undef
    /\ histRef = EmptyObj
    /\ latestRef = EmptyObj
    /\ pushed = EmptyObj
    /\ cancelled = FALSE
    /\ sockets = 1
    /\ decIn = <<>>
    /\ decNow = 0
    /\ decOut = <<>>
    /\ decPc = "idle"
    /\ decAlias = "fresh"
    /\ pending = <<>>
    /\ ticking = TRUE
    /\ \/ /\ status = "connecting"
          /\ wsRef = "connecting"
          /\ backoffRef = [attempt |-> 0, timer |-> FALSE, delay |-> 0]
          /\ debug = [count |-> 0, lastError |-> ""]
          /\ cycles = 0
          /\ live = 1
          /\ timeouts = 0
       \/ /\ status = "closed"
          /\ wsRef = "none"
          /\ backoffRef = [attempt |-> 1, timer |-> TRUE, delay |-> Delay(1)]
          /\ debug = [count |-> 0, lastError |-> "constructor"]
          /\ cycles = 1
          /\ live = 0
          /\ timeouts = 1

\* a document the envelope normalization has not run on yet
Parsed(msg) ==
    [pc |-> "parsed", msg |-> msg, topic |-> Undef, dataRaw |-> NoData,
     ts |-> Undef]

Init == Mounted(DevPage) /\ normalized = Parsed(NullChunk)

\* the reconnect timer fires: if (!cancelled) connectFn().  The timeout
\* that fires is the one backoffRef.timer names; it is pending no more
TimerFire ==
    /\ backoffRef.timer
    /\ sockets < MaxSockets
    /\ IF cancelled
       THEN /\ backoffRef' = [backoffRef EXCEPT !.timer = FALSE]
            /\ timeouts' = clearTimeout(timeouts, backoffRef.timer)
            /\ UNCHANGED <<status, wsRef, debug, sockets, cycles, wsTarget,
                           live>>
       ELSE \E threw \in BOOLEAN : connect(threw)
    /\ UNCHANGED <<rows, lastAnyTs, histRef, latestRef, pushed, cancelled>>
    /\ UNCHANGED decVars
    /\ UNCHANGED pending
    /\ UNCHANGED ticking
    /\ UNCHANGED pageVars
    /\ UNCHANGED normalized

\* ResetAttempt that resets nothing
ResetAttemptForgotten(state) == state

\* backoffRef.current.attempt = 0
ResetAttempt(state) == [state EXCEPT !.attempt = 0]

\* ws.onopen; an open event queued before close() was called is delivered
\* to a socket that is already closing
onopen ==
    /\ wsRef \in {"connecting", "closing"}
    /\ wsRef' = IF wsRef = "connecting" THEN "open" ELSE wsRef
    /\ IF cancelled
       THEN UNCHANGED <<status, backoffRef, debug, cycles>>
       ELSE /\ status' = "open"
            /\ backoffRef' = ResetAttempt(backoffRef)
            /\ debug' = [debug EXCEPT !.lastError = ""]
            /\ cycles' = 0
    /\ UNCHANGED <<rows, lastAnyTs, histRef, latestRef, pushed, cancelled, sockets>>
    /\ UNCHANGED decVars
    /\ UNCHANGED pending
    /\ UNCHANGED ticking
    /\ UNCHANGED pageVars
    /\ UNCHANGED normalized
    /\ UNCHANGED browserVars
    /\ UNCHANGED wsTarget

\* an onerror that schedules a reconnect itself and leaves its socket as
\* it is
onerrorReconnects ==
    /\ wsRef \in {"connecting", "open", "closing"}
    /\ debug' = [debug EXCEPT !.lastError = "onerror"]
    /\ status' = IF cancelled THEN status ELSE "closed"
    /\ backoffRef' = scheduleReconnect(backoffRef)
    /\ cycles' = IF cancelled THEN cycles ELSE cycles + 1
    /\ timeouts' = IF cancelled THEN timeouts
                   ELSE clearTimeout(timeouts, backoffRef.timer) + 1
    /\ UNCHANGED <<rows, lastAnyTs, histRef, latestRef, pushed, wsRef,
                   cancelled, sockets, live>>
    /\ UNCHANGED decVars
    /\ UNCHANGED pending
    /\ UNCHANGED ticking
    /\ UNCHANGED pageVars
    /\ UNCHANGED normalized
    /\ UNCHANGED wsTarget

\* ws.onerror
onerror ==
    /\ wsRef \in {"connecting", "open", "closing"}
    /\ debug' = [debug EXCEPT !.lastError = "onerror"]
    /\ UNCHANGED <<rows, lastAnyTs, status, histRef, latestRef, pushed, wsRef,
                   backoffRef, cancelled, sockets, cycles>>
    /\ UNCHANGED decVars
    /\ UNCHANGED pending
    /\ UNCHANGED ticking
    /\ UNCHANGED pageVars
    /\ UNCHANGED normalized
    /\ UNCHANGED browserVars
    /\ UNCHANGED wsTarget

\* an onclose without if (cancelled) return
oncloseUnguarded ==
    /\ wsRef \in {"connecting", "open", "closing"}
    /\ wsRef' = "closed"
    /\ status' = "closed"
    /\ debug' = [debug EXCEPT !.lastError = "onclose"]
    /\ backoffRef' = scheduleReconnect(backoffRef)
    /\ cycles' = IF cancelled THEN cycles ELSE cycles + 1
    /\ live' = Closed(live, wsRef)
    /\ timeouts' = IF cancelled THEN timeouts
                   ELSE clearTimeout(timeouts, backoffRef.timer) + 1
    /\ UNCHANGED <<rows, lastAnyTs, histRef, latestRef, pushed, cancelled, sockets>>
    /\ UNCHANGED decVars
    /\ UNCHANGED pending
    /\ UNCHANGED ticking
    /\ UNCHANGED pageVars
    /\ UNCHANGED normalized
    /\ UNCHANGED wsTarget

\* ws.onclose
onclose ==
    /\ wsRef \in {"connecting", "open", "closing"}
    /\ wsRef' = "closed"
    /\ IF cancelled
       THEN UNCHANGED <<status, backoffRef, debug, cycles>>
       ELSE /\ status' = "closed"
            /\ debug' = [debug EXCEPT !.lastError = "onclose"]
            /\ backoffRef' = scheduleReconnect(backoffRef)
            /\ cycles' = cycles + 1
    /\ live' = Closed(live, wsRef)
    /\ timeouts' = IF cancelled THEN timeouts
                   ELSE clearTimeout(timeouts, backoffRef.timer) + 1
    /\ UNCHANGED <<rows, lastAnyTs, histRef, latestRef, pushed, cancelled, sockets>>
    /\ UNCHANGED decVars
    /\ UNCHANGED pending
    /\ UNCHANGED ticking
    /\ UNCHANGED pageVars
    /\ UNCHANGED normalized
    /\ UNCHANGED wsTarget

\* cleanup without clearTimeout(backoffRef.current.timer)
cleanupKeepsTimer ==
    /\ cancelled' = TRUE
    /\ status' = "closing"
    /\ wsRef' = CloseSocket(wsRef)
    /\ UNCHANGED <<rows, lastAnyTs, debug, histRef, latestRef, pushed, sockets,
                   cycles, backoffRef, timeouts>>
    /\ live' = Closed(live, wsRef)
    /\ UNCHANGED decVars
    /\ UNCHANGED pending
    /\ UNCHANGED ticking
    /\ UNCHANGED pageVars
    /\ UNCHANGED normalized
    /\ UNCHANGED wsTarget

\* what the cleanup function of the effect of useWsFeed does
cleanupEffect ==
    /\ cancelled' = TRUE
    /\ backoffRef' = [backoffRef EXCEPT !.timer = FALSE]
    /\ status' = "closing"
    /\ wsRef' = CloseSocket(wsRef)
    /\ UNCHANGED <<rows, lastAnyTs, debug, histRef, latestRef, pushed, sockets,
                   cycles>>
    /\ timeouts' = clearTimeout(timeouts, backoffRef.timer)
    /\ live' = Closed(live, wsRef)
    /\ UNCHANGED decVars
    /\ UNCHANGED pending

\* the effect's cleanup function, run on its own
cleanup ==
    /\ cleanupEffect
    /\ UNCHANGED ticking
    /\ UNCHANGED pageVars
    /\ UNCHANGED normalized
    /\ UNCHANGED wsTarget

\* clearInterval that clears nothing
clearIntervalForgotten(t) == t

\* clearInterval(id): whether the interval is set afterwards
clearInterval(t) == FALSE

\* the cleanup function of the interval effect of useRecencySeries, run on
\* its own (the selected symbol changes to none)
seriesCleanup ==
    /\ ticking
    /\ ticking' = clearInterval(ticking)
    /\ UNCHANGED pageVars
    /\ UNCHANGED normalized
    /\ UNCHANGED browserVars
    /\ UNCHANGED wsTarget
    /\ UNCHANGED feedVars
    /\ UNCHANGED connVars
    /\ UNCHANGED decVars
    /\ UNCHANGED pending

\* shutdown of the session: the view that holds useWsFeed and
\* useRecencySeries is unmounted and the cleanup functions of both run in
\* the same commit
unmount ==
    /\ cleanupEffect
    /\ ticking' = clearInterval(ticking)
    /\ UNCHANGED pageVars
    /\ UNCHANGED normalized
    /\ UNCHANGED wsTarget

\* ws.onmessage from the split of the decoded payload on: the loop over the
\* chunks and the catch; nowT is the Date.now() the handler reads
Decoded(frame, nowT) ==
    LET r == Chunks(FeedState, frame, nowT)
    IN  /\ rows' = r.st.rows
        /\ lastAnyTs' = r.st.lastAnyTs
        /\ histRef' = r.st.histRef
        /\ latestRef' = r.st.latestRef
        /\ pushed' = r.st.pushed
        /\ debug' = [count |-> r.st.count,
                     lastError |-> IF r.threw THEN "onmessage"
                                   ELSE debug.lastError]

\* onmessage whose catch gives the connection up: it closes the socket
onmessageFatal(frame, nowT) ==
    /\ wsRef = "open"
    /\ Decoded(frame, nowT)
    /\ IF Chunks(FeedState, frame, nowT).threw
       THEN /\ wsRef' = "closing"
            /\ status' = "closed"
            /\ UNCHANGED <<backoffRef, cancelled, sockets, cycles>>
       ELSE UNCHANGED connVars
    /\ UNCHANGED decVars
    /\ UNCHANGED pending
    /\ UNCHANGED ticking
    /\ UNCHANGED pageVars
    /\ UNCHANGED normalized
    /\ UNCHANGED browserVars
    /\ UNCHANGED wsTarget

\* ws.onmessage for a text or ArrayBuffer frame whose payload splits into
\* the given chunks.  The socket delivers message events only while it is
\* open.
onmessage(frame, nowT) ==
    /\ wsRef = "open"
    /\ Decoded(frame, nowT)
    /\ UNCHANGED connVars
    /\ UNCHANGED decVars
    /\ UNCHANGED pending
    /\ UNCHANGED ticking
    /\ UNCHANGED pageVars
    /\ UNCHANGED normalized
    /\ UNCHANGED browserVars
    /\ UNCHANGED wsTarget

\* ws.onmessage for a Blob frame, up to await payload.text(): the call is
\* suspended and the handler returns to the event loop
onmessageBlob(frame) ==
    /\ wsRef = "open"
    /\ pending' = Append(pending, frame)
    /\ UNCHANGED feedVars
    /\ UNCHANGED connVars
    /\ UNCHANGED decVars
    /\ UNCHANGED ticking
    /\ UNCHANGED pageVars
    /\ UNCHANGED normalized
    /\ UNCHANGED browserVars
    /\ UNCHANGED wsTarget

\* a sequence without its i-th element
RemoveAt(seq, i) == SubSeq(seq, 1, i - 1) \o SubSeq(seq, i + 1, Len(seq))

\* payload.text() of the i-th suspended call resolves and the call goes on
\* after the await; the reads of different Blobs are independent of each
\* other, and nothing in the continuation looks at the socket or at
\* cancelled
resume(i, nowT) ==
    /\ i \in 1..Len(pending)
    /\ Decoded(pending[i], nowT)
    /\ pending' = RemoveAt(pending, i)
    /\ UNCHANGED connVars
    /\ UNCHANGED decVars
    /\ UNCHANGED ticking
    /\ UNCHANGED pageVars
    /\ UNCHANGED normalized
    /\ UNCHANGED browserVars
    /\ UNCHANGED wsTarget

(***************************************************************************)
(* decimateRecency (utils/sampling.js).                                    *)
(***************************************************************************)
TWO_MIN == 2 * 60 * 1000
TEN_MIN == 10 * 60 * 1000
ONE_HOUR == 60 * 60 * 1000
ONE_SEC == 1000
FIVE_SEC == 5 * 1000
THIRTY_SEC == 30 * 1000
FIVE_MIN == 5 * 60 * 1000

\* rules; inf marks the horizon Infinity
rules ==
    << [horizon |-> TWO_MIN, inf |-> FALSE, interval |-> ONE_SEC],
       [horizon |-> TEN_MIN, inf |-> FALSE, interval |-> FIVE_SEC],
       [horizon |-> ONE_HOUR, inf |-> FALSE, interval |-> THIRTY_SEC],
       [horizon |-> 0, inf |-> TRUE, interval |-> FIVE_MIN] >>

\* while (idx < rules.length && age > rules[idx].horizon) idx++, with idx
\* counted from 1
\* TierFrom with age >= horizon for the test of the loop
RECURSIVE TierFromInclusive(_, _)
TierFromInclusive(age, idx) ==
    IF idx <= Len(rules) /\ ~rules[idx].inf /\ age >= rules[idx].horizon
    THEN TierFromInclusive(age, idx + 1)
    ELSE idx

RECURSIVE TierFrom(_, _)
TierFrom(age, idx) ==
    IF idx <= Len(rules) /\ ~rules[idx].inf /\ age > rules[idx].horizon
    THEN TierFrom(age, idx + 1)
    ELSE idx

Tier(age) == TierFrom(age, 1)

\* Interval that takes the first rule's interval for every tier
IntervalOfFirstRule(idx) == rules[1].interval

\* (rules[idx] || rules[rules.length - 1]).interval
Interval(idx) ==
    IF idx <= Len(rules) THEN rules[idx].interval ELSE rules[Len(rules)].interval

\* Keep without the i === arr.length - 1 disjunct
KeepWithoutFinal(t, last, interval, isFinal) ==
    \/ ~IsFinite(last)
    \/ t - last.n >= interval

\* Keep with t - lastKept[idx] > interval
KeepStrictlyLater(t, last, interval, isFinal) ==
    \/ ~IsFinite(last)
    \/ t - last.n > interval
    \/ isFinal

\* the test of the if inside the loop
Keep(t, last, interval, isFinal) ==
    \/ ~IsFinite(last)
    \/ t - last.n >= interval
    \/ isFinal

\* Push at the wrong end: out.unshift(p)
PushFront(out, p) == <<p>> \o out

\* out.push(p)
Push(out, p) == Append(out, p)

\* the for loop from index i on; lastKept[idx] is a number or NaN
RECURSIVE DecLoop(_, _, _, _, _)
DecLoop(arr, nowT, i, out, lastKept) ==
    IF i > Len(arr) THEN out
    ELSE IF ~IsFinite(arr[i].t) THEN DecLoop(arr, nowT, i + 1, out, lastKept)
    ELSE LET t == arr[i].t.n
             idx == Tier(nowT - t)
         IN  IF Keep(t, lastKept[idx], Interval(idx), i = Len(arr))
             THEN DecLoop(arr, nowT, i + 1, Push(out, arr[i]),
                          [lastKept EXCEPT ![idx] = Num(t)])
             ELSE DecLoop(arr, nowT, i + 1, out, lastKept)

decimateRecency(arr, nowT) ==
    IF Len(arr) = 0 THEN <<>>
    ELSE DecLoop(arr, nowT, 1, <<>>, [idx \in 1..Len(rules) |-> NaN])

\* ReturnsInput that hands back the argument when there is nothing to drop
ReturnsInputWhenShort(arr) == Len(arr) <= 1

\* whether the array decimateRecency returns is the array it was given: it
\* returns a new [] or the new array out, never arr
ReturnsInput(arr) == FALSE

\* one call of decimateRecency on the array named src
Decimate(arr, nowT, src) ==
    /\ decIn' = arr
    /\ decNow' = nowT
    /\ decOut' = decimateRecency(arr, nowT)
    /\ decPc' = "done"
    /\ decAlias' = IF ReturnsInput(arr) THEN src ELSE "fresh"
    /\ UNCHANGED feedVars
    /\ UNCHANGED connVars
    /\ UNCHANGED pending
    /\ UNCHANGED ticking
    /\ UNCHANGED pageVars
    /\ UNCHANGED normalized
    /\ UNCHANGED browserVars
    /\ UNCHANGED wsTarget

(***************************************************************************)
(* Inputs.                                                                 *)
(***************************************************************************)
MaxDocs == 3

\* {"topic": topic, "ts": ts, "data": {...}}
Enveloped(topic, ts, fields) ==
    ObjChunk(("topic" :> Str(topic)) @@ ("ts" :> ts), ObjData(fields), NoData)

\* {"type": topic, "payload": {...}} without a ts
Typed(topic, fields) ==
    ObjChunk(("type" :> Str(topic)), NoData, ObjData(fields))

PriceA1 == Enveloped("prices.tick", Num(2), ("symbol" :> Str("A")) @@ ("last" :> Num(10)))
PriceA2 == Enveloped("prices.tick", Num(1), ("symbol" :> Str("A")) @@ ("last" :> Num(11)))
PriceA3 == Enveloped("prices.tick", Str("garbage"),
                     ("symbol" :> Str("A")) @@ ("last" :> Num(10)))
InavA1 == Enveloped("inav.tick", Num(3), ("etf_id" :> Str("A")) @@ ("inav" :> Num(20)))
InavA2 == Enveloped("inav.tick", Num(1),
                    ("symbol" :> Str("A")) @@ ("inav" :> Num(21))
                    @@ ("band_upper" :> Num(22)) @@ ("band_lower" :> Num(19)))
FxB == Enveloped("fx.spot", Num(3), ("symbol" :> Str("B")) @@ ("last" :> Num(10)))
PriceB == Typed("prices.tick", ("ticker" :> Str("B")) @@ ("price" :> Str("7")))

\* a timestamp before the epoch
PriceANeg == Enveloped("prices.tick", Num(-5), ("symbol" :> Str("A")) @@ ("last" :> Num(10)))
\* no price field at all
PriceANone == Enveloped("prices.tick", Num(3), ("symbol" :> Str("A")))
\* {"topic": 5, "ts": 3, "data": {...}}
TopicNum ==
    ObjChunk(("topic" :> Num(5)) @@ ("ts" :> Num(3)),
             ObjData(("symbol" :> Str("A")) @@ ("last" :> Num(10))), NoData)

FeedDocs ==
    {PriceA1, PriceA2, PriceA3, InavA1, InavA2, FxB, PriceB, BadChunk,
     PriceANeg, PriceANone, TopicNum, NullChunk}

\* frames of one or two newline-delimited documents
FramesOf(docs) == {<<d>> : d \in docs} \cup {<<d, e>> : d \in docs, e \in docs}

NowTimes == {Num(4)}

(***************************************************************************)
(* Specifications.                                                         *)
(***************************************************************************)
Receive(docs) ==
    \E frame \in FramesOf(docs), nowT \in NowTimes :
        /\ debug.count + Len(frame) <= MaxDocs
        /\ onmessage(frame, nowT)

\* one connection that opens and delivers frames
NextFeed == onopen \/ Receive(FeedDocs)

SpecFeed == Init /\ [][NextFeed]_vars

\* one connection that delivers text frames and Blob frames
MaxPending == 2

BlobDocs == {PriceA1, InavA1, BadChunk}

ReceiveText ==
    \E d \in BlobDocs, nowT \in NowTimes :
        /\ debug.count + 1 <= MaxDocs
        /\ onmessage(<<d>>, nowT)

ReceiveBlob ==
    \E d \in BlobDocs :
        /\ Len(pending) < MaxPending
        /\ debug.count + 1 <= MaxDocs
        /\ onmessageBlob(<<d>>)

TextResolved == \E i \in 1..Len(pending), nowT \in NowTimes : resume(i, nowT)

NextBlob == onopen \/ ReceiveText \/ ReceiveBlob \/ TextResolved

SpecBlob == Init /\ [][NextBlob]_vars

\* one connection that delivers text frames and Blob frames and is shut
\* down
NextShut ==
    onopen \/ ReceiveText \/ ReceiveBlob \/ TextResolved \/ onclose \/ cleanup

SpecShut == Init /\ [][NextShut]_vars

\* the connection life cycle without frames
NextConn == TimerFire \/ onopen \/ onerror \/ onclose \/ cleanup

SpecConn == Init /\ [][NextConn]_vars

\* the connection life cycle of a hook that is never unmounted: a timer
\* that was set fires, and the open event of a socket that stays in the
\* connecting state is delivered
NextLive == TimerFire \/ onopen \/ onerror \/ onclose

SpecLive ==
    Init /\ [][NextLive]_vars /\ WF_vars(TimerFire) /\ WF_vars(onopen)

\* decimateRecency on its own
MaxLen == 3

DecTimes ==
    {Num(0), Num(400000), Num(3400000), Num(3800000), Num(3804000),
     Num(3805000), Num(3999000), Num(3999500), Num(4000000), Num(4001000),
     NaN}

DecNows == {4000000, 4120000}

\* arrays of n points; the i-th carries price i
SeriesOf(n) ==
    {[i \in 1..n |-> [t |-> ts[i], price |-> Num(i), inav |-> Undef,
                      bu |-> Undef, bl |-> Undef]] : ts \in [1..n -> DecTimes]}

Series == UNION {SeriesOf(n) : n \in 0..MaxLen}

\* the arguments are drawn at the start and decimateRecency is called once
InitDec ==
    /\ rows = EmptyObj
    /\ lastAnyTs = Undef
    /\ histRef = EmptyObj
    /\ latestRef = EmptyObj
    /\ pushed = EmptyObj
    /\ debug = [count |-> 0, lastError |-> ""]
    /\ status = "connecting"
    /\ wsRef = "connecting"
    /\ backoffRef = [attempt |-> 0, timer |-> FALSE, delay |-> 0]
    /\ cancelled = FALSE
    /\ sockets = 1
    /\ cycles = 0
    /\ decIn \in Series
    /\ decNow \in DecNows
    /\ decOut = <<>>
    /\ decPc = "idle"
    /\ decAlias = "fresh"
    /\ pending = <<>>
    /\ ticking = TRUE
    /\ location = DevPage
    /\ wsUrl = ResolveWsUrl(DevPage)
    /\ wsTarget = ResolveWsUrl(DevPage)
    /\ normalized = Parsed(NullChunk)
    /\ live = 1
    /\ timeouts = 0

NextDec == decPc = "idle" /\ Decimate(decIn, decNow, "argument")

SpecDec == InitDec /\ [][NextDec]_vars

\* decimateRecency called on the array its previous call returned, at the
\* same current time
DecimateAgain ==
    /\ decPc = "done"
    /\ decOut' = decimateRecency(decOut, decNow)
    /\ decPc' = "again"
    /\ decAlias' = IF ReturnsInput(decOut) THEN "output" ELSE "fresh"
    /\ UNCHANGED <<decIn, decNow>>
    /\ UNCHANGED feedVars
    /\ UNCHANGED connVars
    /\ UNCHANGED pending
    /\ UNCHANGED ticking
    /\ UNCHANGED pageVars
    /\ UNCHANGED normalized
    /\ UNCHANGED browserVars
    /\ UNCHANGED wsTarget

NextAgain == NextDec \/ DecimateAgain

SpecAgain == InitDec /\ [][NextAgain]_vars

\* the hook as a whole, on a small set of documents (Blob frames are in
\* SpecBlob)
SmallDocs == {PriceA1, InavA1, BadChunk}

\* the chart's refresh: decimateRecency(histRef.current[selected] || [])
Refresh ==
    \E sym \in {"A", "B"}, nowT \in DecNows :
        /\ ticking
        /\ IF sym \in DOMAIN histRef
           THEN Decimate(histRef[sym], nowT, sym)
           ELSE Decimate(<<>>, nowT, "literal")

\* the pages the hook is mounted on: with and without the ws parameter,
\* with an empty one, secure and not
Locations ==
    { Location(ws, protocol, host) :
        ws \in {Null, Str(""), Str("ws://127.0.0.1:9080/stream")},
        protocol \in {"http:", "https:"},
        host \in {"localhost:5173", "etf.example"} }

\* the single-page application changes window.location (history.pushState)
\* and the component renders again
navigate ==
    /\ ~cancelled
    /\ \E loc \in Locations \ {location} :
        /\ location' = loc
        /\ wsUrl' = useMemo(wsUrl, ResolveWsUrl(loc))
    /\ UNCHANGED feedVars
    /\ UNCHANGED connVars
    /\ UNCHANGED decVars
    /\ UNCHANGED pending
    /\ UNCHANGED ticking
    /\ UNCHANGED wsTarget
    /\ UNCHANGED normalized
    /\ UNCHANGED browserVars

\* the connection life cycle on every page, with navigation
InitUrl ==
    /\ \E loc \in Locations : Mounted(loc)
    /\ normalized = Parsed(NullChunk)

NextUrl == TimerFire \/ onopen \/ onclose \/ navigate

SpecUrl == InitUrl /\ [][NextUrl]_vars

\* an object with the properties of f that are given (undefined stands for
\* a key the JSON text does not have)
Object(f) == [x \in {y \in DOMAIN f : f[y] # Undef} |-> f[x]]

\* the ts values of the documents: none, null, a number, a date-time
\* string, a string that is no date, a boolean
TsValues ==
    {Undef, Null, Num(7), Str("1970-01-01T00:00:00.002Z"), Str("garbage"),
     Bool(TRUE)}

\* documents of every envelope shape: topic, type and channel given or not
\* (topic also empty or a number), data and payload given or not (data also
\* null or a number), a ts on the envelope and on the payload, and flat
\* fields beside a version key
ShapeDocs ==
    { ObjChunk(Object(("topic" :> t) @@ ("type" :> ty) @@ ("channel" :> ch)
                      @@ ("ts" :> ets) @@ ("version" :> Num(1))
                      @@ ("symbol" :> Str("T"))),
               d, p) :
        t \in {Undef, Str(""), Str("prices.tick"), Num(5)},
        ty \in {Undef, Str("inav.tick")},
        ch \in {Undef, Str("fx.spot")},
        ets \in TsValues,
        d \in {NoData, NullData, PrimData}
               \cup {ObjData(Object(("symbol" :> Str("D")) @@ ("ts" :> x))) :
                       x \in TsValues},
        p \in {NoData}
               \cup {ObjData(Object(("symbol" :> Str("P")) @@ ("ts" :> x))) :
                       x \in {Undef, Num(9)}} }

\* the envelope normalization of the for loop's body, on its own
normalize ==
    /\ normalized.pc = "parsed"
    /\ \E nowT \in NowTimes :
        normalized' = [pc |-> "normalized",
                       msg |-> normalized.msg,
                       topic |-> Topic(normalized.msg),
                       dataRaw |-> DataRaw(normalized.msg),
                       ts |-> TsOf(normalized.msg, nowT)]
    /\ UNCHANGED feedVars
    /\ UNCHANGED connVars
    /\ UNCHANGED decVars
    /\ UNCHANGED pending
    /\ UNCHANGED ticking
    /\ UNCHANGED pageVars
    /\ UNCHANGED wsTarget
    /\ UNCHANGED browserVars

InitShape ==
    /\ Mounted(DevPage)
    /\ \E msg \in ShapeDocs : normalized = Parsed(msg)

NextShape == normalize

SpecShape == InitShape /\ [][NextShape]_vars

\* records with a finite value and every choice of identifying fields; the
\* value tells the records apart
Record(topic, ids, field, v) ==
    Enveloped(topic, Num(3), Object(ids) @@ (field :> Num(v)))

Ids(etf, sec, sym, tic) ==
    ("etf_id" :> etf) @@ ("security_id" :> sec) @@ ("symbol" :> sym)
    @@ ("ticker" :> tic)

\* each record with the instrument it belongs to
Identified ==
    {[doc |-> Record("prices.tick", Ids(Undef, Str("S"), Str("Y"), Str("K")), "last", 11),
      sym |-> "S", pt |-> "price", v |-> Num(11)],
     [doc |-> Record("prices.tick", Ids(Undef, Undef, Str("Y"), Str("K")), "last", 12),
      sym |-> "Y", pt |-> "price", v |-> Num(12)],
     [doc |-> Record("prices.tick", Ids(Undef, Undef, Undef, Str("K")), "last", 13),
      sym |-> "K", pt |-> "price", v |-> Num(13)],
     [doc |-> Record("prices.tick", Ids(Undef, Undef, Undef, Undef), "last", 14),
      sym |-> "UNKNOWN", pt |-> "price", v |-> Num(14)],
     [doc |-> Record("prices.tick", Ids(Str("E"), Undef, Undef, Str("K")), "last", 15),
      sym |-> "K", pt |-> "price", v |-> Num(15)],
     [doc |-> Record("prices.tick", Ids(Undef, Null, Str("Y"), Undef), "last", 16),
      sym |-> "Y", pt |-> "price", v |-> Num(16)],
     [doc |-> Record("inav.tick", Ids(Str("E"), Str("S"), Str("Y"), Str("K")), "inav", 21),
      sym |-> "E", pt |-> "inav", v |-> Num(21)],
     [doc |-> Record("inav.tick", Ids(Undef, Str("S"), Str("Y"), Undef), "inav", 22),
      sym |-> "S", pt |-> "inav", v |-> Num(22)],
     [doc |-> Record("inav.tick", Ids(Undef, Undef, Str("Y"), Str("K")), "inav", 23),
      sym |-> "Y", pt |-> "inav", v |-> Num(23)],
     [doc |-> Record("inav.tick", Ids(Undef, Undef, Undef, Str("K")), "inav", 24),
      sym |-> "K", pt |-> "inav", v |-> Num(24)],
     [doc |-> Record("inav.tick", Ids(Undef, Undef, Undef, Undef), "inav", 25),
      sym |-> "UNKNOWN", pt |-> "inav", v |-> Num(25)]}

IdDocs == {u.doc : u \in Identified}

\* one connection that delivers records of every identification
NextIdent == onopen \/ Receive(IdDocs)

SpecIdent == Init /\ [][NextIdent]_vars

\* records of two instruments, one of them without a value
SessionDocs == {PriceA1, InavA1, PriceA2, PriceB, PriceANone}

\* a session of several connections that deliver records
NextSession == TimerFire \/ onopen \/ onclose \/ Receive(SessionDocs)

SpecSession == Init /\ [][NextSession]_vars

\* the connection life cycle and the chart's refresh up to the shutdown of
\* the session
NextMount ==
    TimerFire \/ onopen \/ onclose \/ Refresh \/ seriesCleanup \/ unmount

SpecMount == Init /\ [][NextMount]_vars

\* the feed and the chart's refresh side by side
NextSeries == onopen \/ Receive(SmallDocs) \/ Refresh

SpecSeries == Init /\ [][NextSeries]_vars

Next ==
    \/ TimerFire
    \/ onopen
    \/ onerror
    \/ onclose
    \/ cleanup
    \/ Receive(SmallDocs)
    \/ Refresh

Spec == Init /\ [][Next]_vars

(***************************************************************************)
(* Properties.                                                             *)
(***************************************************************************)
PointFields == {"price", "inav", "bu", "bl"}

\* the points of a pushPoint log
PointsOf(log) == [i \in 1..Len(log) |-> log[i].point]

\* C1 (SpecFeed): forward fill.  Every point pushPoint appends carries, for
\* each of price, inav, bu and bl, the value its record supplied when that
\* is a finite number and otherwise the value of the instrument's previous
\* point (nothing for the first point); and the latest point of the history
\* is the point appended last.
C1_ForwardFill ==
    \A sym \in DOMAIN pushed :
        /\ \A i \in 1..Len(pushed[sym]) :
              LET e == pushed[sym][i]
                  before == IF i = 1 THEN EmptyLatest
                            ELSE pushed[sym][i - 1].point
              IN  \A f \in PointFields :
                      e.point[f] = IF IsFinite(e.patch[f]) THEN e.patch[f]
                                   ELSE before[f]
        /\ histRef[sym][Len(histRef[sym])] = pushed[sym][Len(pushed[sym])].point

\* C1 witness: an inav record that supplied no price was appended after a
\* price was known, and its point carries that price
C1_InavCarriesPrice ==
    \E sym \in DOMAIN pushed : \E i \in 2..Len(pushed[sym]) :
        /\ pushed[sym][i].patch.price = Undef
        /\ IsFinite(pushed[sym][i].patch.inav)
        /\ IsFinite(pushed[sym][i].point.price)
        /\ pushed[sym][i].point.price = pushed[sym][i - 1].point.price

\* C2 (SpecFeed), as claimed: no step lowers an instrument's lastTs; after
\* every step it is greater than or equal to its value before
C2_LastTsMonotonic ==
    [][\A sym \in DOMAIN rows : NumGE(rows'[sym].lastTs, rows[sym].lastTs)]_vars

\* the last n elements of a sequence
LastN(seq, n) ==
    IF Len(seq) <= n THEN seq ELSE SubSeq(seq, Len(seq) - n + 1, Len(seq))

\* C3 (SpecFeed): capacity.  Every history holds at most MAX_POINTS
\* points, and holds exactly the most recent MAX_POINTS (or all, when fewer
\* were appended) of the points appended to it, in the order of their
\* appends.
C3_CapacityBound ==
    \A sym \in DOMAIN histRef :
        /\ Len(histRef[sym]) <= MAX_POINTS
        /\ histRef[sym] = LastN(PointsOf(pushed[sym]), MAX_POINTS)

\* C3 witness: more than MAX_POINTS points were appended to one history,
\* which holds MAX_POINTS
C3_Evicted ==
    \E sym \in DOMAIN histRef :
        Len(pushed[sym]) > MAX_POINTS /\ Len(histRef[sym]) = MAX_POINTS

\* C4 (SpecDec), as claimed: the output of a decimation of a non-empty
\* array ends with the last element of the array
C4_KeepsLatest ==
    decPc = "done" /\ decIn # <<>>
        => decOut # <<>> /\ decOut[Len(decOut)] = decIn[Len(decIn)]

\* C4 (SpecDec), amended: the output of a decimation of a non-empty array
\* whose last element has a finite timestamp ends with that element
C4_KeepsLatestFinite ==
    decPc = "done" /\ decIn # <<>> /\ IsFinite(decIn[Len(decIn)].t)
        => decOut # <<>> /\ decOut[Len(decOut)] = decIn[Len(decIn)]

\* C4 witness: after a point without a timestamp and a point one half
\* second newer than the last one, the last point is kept
C4_FinalKeptOutOfOrder ==
    /\ decPc = "done"
    /\ decNow = 4000000
    /\ Len(decIn) = 3
    /\ decIn[1].t = NaN
    /\ decIn[2].t = Num(4000000)
    /\ decIn[3].t = Num(3999500)
    /\ decOut = <<decIn[2], decIn[3]>>

\* the minimum spacing the tier of a point of the given age asks for
SpacingAtAge(age) ==
    IF age <= 120000 THEN 1000
    ELSE IF age <= 600000 THEN 5000
    ELSE IF age <= 3600000 THEN 30000
    ELSE 300000

\* the pairs of neighbours in the output that are in one tier, the second
\* of which is not the final point of the input
SpacedPairs ==
    {i \in 1..(Len(decOut) - 1) :
        /\ SpacingAtAge(decNow - decOut[i].t.n)
             = SpacingAtAge(decNow - decOut[i + 1].t.n)
        /\ ~(i + 1 = Len(decOut) /\ decOut[i + 1] = decIn[Len(decIn)])}

\* C5 (SpecDec): spacing.  Two neighbours in the output that are in one
\* tier are at least that tier's spacing apart, unless the second is the
\* final point of the input.
C5_Spacing ==
    decPc = "done" =>
        \A i \in SpacedPairs :
            decOut[i + 1].t.n - decOut[i].t.n
                >= SpacingAtAge(decNow - decOut[i].t.n)

\* C5 witness: an output with such a pair
C5_HasSpacedPair == decPc = "done" /\ SpacedPairs # {}

\* the delay the claim gives for the k-th consecutive cycle
ScheduleDelay(k) ==
    CASE k = 1 -> 500
      [] k = 2 -> 1000
      [] k = 3 -> 2000
      [] k = 4 -> 4000
      [] k = 5 -> 8000
      [] k = 6 -> 16000
      [] OTHER -> 30000

RECURSIVE EachValidOnce(_, _, _)
EachValidOnce(st, chunks, nowT) ==
    IF chunks = <<>> THEN st
    ELSE IF Head(chunks).kind = "bad"
         THEN EachValidOnce(st, Tail(chunks), nowT)
         ELSE EachValidOnce(Chunk(st, Head(chunks), nowT).st, Tail(chunks), nowT)

\* C7 (SpecFeed), as claimed: whatever frame an open socket delivers, the
\* handler leaves the feed as if every document of the frame that parses
\* had been applied once, and the malformed ones had not been there
C7_ValidDocsApplied ==
    wsRef = "open" =>
        \A frame \in FramesOf(FeedDocs), nowT \in NowTimes :
            Chunks(FeedState, frame, nowT).st = EachValidOnce(FeedState, frame, nowT)

\* documents of a topic outside prices.* and inav.*
NoTopic == Enveloped("", Num(1), ("symbol" :> Str("A")) @@ ("last" :> Num(10)))
UnknownDocs == {FxB, NoTopic}

\* C8 (SpecFeed): unknown topic.  Applied in any state, a document whose
\* topic is outside prices.* and inav.* sets lastAnyTs to its timestamp and
\* leaves rows, the histories and the latest fields as they are, with no
\* new instrument, and does not throw.
C8_UnknownTopicNoOp ==
    \A d \in UnknownDocs, nowT \in NowTimes :
        LET r == Chunk(FeedState, d, nowT)
        IN  /\ ~r.threw
            /\ r.st.lastAnyTs = d.top["ts"]
            /\ r.st.rows = rows
            /\ r.st.histRef = histRef
            /\ r.st.latestRef = latestRef
            /\ r.st.pushed = pushed

\* C8 witness: fx.spot documents are all that was applied so far: the last
\* event time is theirs and there is no instrument
C8_OnlyFxApplied ==
    /\ debug.count >= 1
    /\ lastAnyTs = Num(3)
    /\ DOMAIN rows = {}
    /\ DOMAIN histRef = {}

\* after cleanup: no timer, status closing, no socket that close() would
\* still change
Shut ==
    cancelled =>
        /\ ~backoffRef.timer
        /\ status = "closing"
        /\ CloseSocket(wsRef) = wsRef

\* C9 (SpecConn): shutdown.  Once cleanup has run, no timer is pending, no
\* step constructs a socket or sets a timer, and cleanup itself would
\* change nothing, whatever event is delivered afterwards.
C9_ShutdownStopsReconnect ==
    /\ []Shut
    /\ [][cancelled => /\ cancelled'
                       /\ sockets' = sockets
                       /\ backoffRef' = backoffRef
                       /\ wsRef' \in {wsRef, "closed"}]_vars

\* C9 witness: the socket closed after cleanup (no reconnect was scheduled
\* for its close: attempt is still 0)
C9_ClosedAfterShutdown ==
    cancelled /\ wsRef = "closed" /\ backoffRef.attempt = 0

\* the step in which an open event is handled before cleanup
OpenHandled == wsRef = "connecting" /\ wsRef' = "open" /\ ~cancelled

\* C10 (SpecConn): an open event handled before cleanup sets status to
\* "open" and attempt to 0; every other step adds to attempt exactly the
\* number, 0 or 1, of failed/closed cycles it completes.
C10_OpenResetsAttempt ==
    [][/\ OpenHandled => status' = "open" /\ backoffRef'.attempt = 0
       /\ ~OpenHandled =>
            /\ cycles' - cycles \in {0, 1}
            /\ backoffRef'.attempt - backoffRef.attempt = cycles' - cycles]_vars

\* C10 witness: a socket opened after an earlier cycle had failed
C10_OpenAfterFailure ==
    status = "open" /\ wsRef = "open" /\ backoffRef.attempt = 0 /\ sockets >= 2

\* the steps C11 is about, before cleanup: ws.onerror ran, a socket closed,
\* new WebSocket threw, new WebSocket returned a socket
ErrorHandled == ~cancelled /\ debug' # debug /\ debug'.lastError = "onerror"
CloseHandled == ~cancelled /\ wsRef # "closed" /\ wsRef' = "closed"
ConstructorFailed ==
    ~cancelled /\ sockets' = sockets + 1 /\ wsRef' # "connecting"
SocketCreated == sockets' = sockets + 1 /\ wsRef' = "connecting"

\* C11 (SpecConn), as claimed: every error event, close event and
\* constructor failure before cleanup sets status to "closed" and sets one
\* timer, for the delay of the attempt count it has raised by one; and a
\* connect() that creates a socket leaves status "connecting"
C11_FailureSchedulesReconnect ==
    [][/\ ErrorHandled \/ CloseHandled \/ ConstructorFailed =>
            /\ status' = "closed"
            /\ backoffRef'.timer
            /\ backoffRef'.attempt = backoffRef.attempt + 1
            /\ backoffRef'.delay = Delay(backoffRef'.attempt)
       /\ SocketCreated => status' = "connecting"]_vars

\* a step in which the endpoint refuses a connection: new WebSocket throws,
\* or the socket closes before it opened
Refused ==
    \/ sockets' = sockets + 1 /\ wsRef' # "connecting"
    \/ wsRef = "connecting" /\ wsRef' = "closed"

\* C12 (SpecLive): self-healing.  From every state with status "closed",
\* after any number of sockets, connect() is called once more: it leaves
\* status "connecting" or the constructor has thrown again.  And unless
\* the endpoint goes on refusing for ever, status is "open" again and
\* again.  (Both up to the number of sockets of the model.)
C12_SelfHealing ==
    /\ \A n \in 1..(MaxSockets - 1) :
          (status = "closed" /\ sockets = n)
            ~> /\ sockets = n + 1
               /\ status = "connecting" \/ debug.lastError = "constructor"
    /\ \/ []<><<Refused>>_vars
       \/ []<>(status = "open")
       \/ <>(sockets = MaxSockets)

\* C12 witness: a new attempt after as many consecutive failures as the
\* model has sockets for
C12_AttemptAfterManyFailures ==
    /\ status = "connecting"
    /\ sockets = MaxSockets - 1
    /\ backoffRef.attempt = MaxSockets - 2

ValidUpdates ==
    {[doc |-> PriceA1, sym |-> "A", row |-> "lastPrice", pt |-> "price",
      v |-> Num(10), t |-> Num(2)],
     [doc |-> InavA1, sym |-> "A", row |-> "inav", pt |-> "inav",
      v |-> Num(20), t |-> Num(3)],
     [doc |-> PriceB, sym |-> "B", row |-> "lastPrice", pt |-> "price",
      v |-> Num(7), t |-> Num(4)]}

\* the feed after a frame of the one record u.doc: the row has its value and
\* one point with its timestamp and value was appended
Produces(u, st) ==
    /\ u.sym \in DOMAIN st.rows
    /\ st.rows[u.sym][u.row] = u.v
    /\ LET before == IF u.sym \in DOMAIN pushed THEN Len(pushed[u.sym]) ELSE 0
           log == st.pushed[u.sym]
       IN  /\ Len(log) = before + 1
           /\ log[Len(log)].point.t = u.t
           /\ log[Len(log)].point[u.pt] = u.v
           /\ st.histRef[u.sym][Len(st.histRef[u.sym])] = log[Len(log)].point

\* a frame has been handled on the socket
AfterFrame == debug.count > 0 \/ debug.lastError = "onmessage"

\* C14 (SpecFeed): no frame ends ingestion.  A step that handles a frame
\* (unparsable, null, of a topic that is no string, of an unknown topic,
\* without a price) leaves status, the socket and the reconnect state as
\* they were; and in every state after a frame the socket is open, so that
\* it still delivers frames to the handler, and a frame of one well-formed
\* record produces its row and its point.
C14_IngestionSurvives ==
    /\ [][wsRef = "open" /\ feedVars' # feedVars => connVars' = connVars]_vars
    /\ [](AfterFrame =>
            \A u \in ValidUpdates, nowT \in NowTimes :
                /\ wsRef = "open"
                /\ ~Chunks(FeedState, <<u.doc>>, nowT).threw
                /\ Produces(u, Chunks(FeedState, <<u.doc>>, nowT).st))

\* C14 witness: the handler has caught an error on this socket, which is
\* still open with no reconnect scheduled, and records of instrument A
\* are in its row and history
C14_AppliedDespiteError ==
    /\ debug.lastError = "onmessage"
    /\ status = "open" /\ wsRef = "open" /\ ~backoffRef.timer
    /\ debug.count = MaxDocs
    /\ "A" \in DOMAIN rows /\ Len(histRef["A"]) >= 1

\* records whose price or inav source is no finite number: absent, a word,
\* null, the empty string
PriceAText ==
    Enveloped("prices.tick", Num(3), ("symbol" :> Str("A")) @@ ("last" :> Str("abc")))
PriceANull ==
    Enveloped("prices.tick", Num(3), ("symbol" :> Str("A")) @@ ("price" :> Null))
InavAEmpty ==
    Enveloped("inav.tick", Num(3), ("etf_id" :> Str("A")) @@ ("inav" :> Str("")))
NonFiniteDocs == {PriceANone, PriceAText, PriceANull, InavAEmpty}

\* C15 (SpecFeed), as claimed: applied in any state, a prices.* record
\* whose price, or an inav.* record whose inav value, is no finite number
\* changes no row, no history, no latest field and creates no instrument
C15_NonFiniteDiscarded ==
    \A d \in NonFiniteDocs, nowT \in NowTimes :
        LET r == Chunk(FeedState, d, nowT)
        IN  /\ r.st.rows = rows
            /\ r.st.histRef = histRef
            /\ r.st.latestRef = latestRef
            /\ r.st.pushed = pushed

\* an inav record with a finite inav, a null upper band and an empty lower
\* band
InavABandsBlank ==
    Enveloped("inav.tick", Num(3),
              ("etf_id" :> Str("A")) @@ ("inav" :> Num(20))
              @@ ("bandUpper" :> Null) @@ ("band_lower" :> Str("")))
PartialDocs == {PriceA1, InavA1, InavA2, PriceANone, PriceANull, InavABandsBlank}

\* a source value that is a finite number or a string that parses to one
FiniteSource(v) ==
    \/ v.k = "num"
    \/ v.k = "str" /\ \E p \in NumericStrings : p[1] = v.s

\* the source value a record of instrument A supplies for a row field
SourceOf(d, field) ==
    LET f == d.data.f
        prices == StartsWith(d.top["topic"].s, "prices.")
    IN  CASE field = "lastPrice" /\ prices ->
                Nullish(Nullish(Get(f, "last"), Get(f, "mid")), Get(f, "price"))
          [] field = "inav" /\ ~prices ->
                Nullish(Get(f, "inav"), Get(f, "value"))
          [] field = "bandUpper" /\ ~prices ->
                Nullish(Get(f, "band_upper"), Get(f, "bandUpper"))
          [] field = "bandLower" /\ ~prices ->
                Nullish(Get(f, "band_lower"), Get(f, "bandLower"))
          [] OTHER -> Undef

\* C16 (SpecFeed), as claimed: applied in any state, a record changes a
\* value field of the row of its instrument only when it supplies a finite
\* number for that field; each band is judged on its own source
C16_OnlyFiniteOverwrites ==
    \A d \in PartialDocs, nowT \in NowTimes :
        LET new == Chunk(FeedState, d, nowT).st.rows
            old == IF "A" \in DOMAIN rows THEN rows["A"] ELSE EmptyRow
        IN  \A field \in {"lastPrice", "inav", "bandUpper", "bandLower"} :
                "A" \in DOMAIN new /\ new["A"][field] # old[field]
                    => FiniteSource(SourceOf(d, field))

\* documents that are null, a primitive, without a topic, with a topic that
\* is a number, with data that is a number
NoTopicField ==
    ObjChunk(("ts" :> Num(3)), ObjData(("symbol" :> Str("A"))), NoData)
DataPrim ==
    ObjChunk(("topic" :> Str("prices.tick")) @@ ("ts" :> Num(3)), PrimData, NoData)
OddDocs == {NullChunk, PrimChunk, NoTopicField, TopicNum, DataPrim}

\* C17 (SpecFeed), as claimed: applied in any state, the loop body does not
\* throw on such a document, and a well-formed record that follows it in
\* the same frame produces its row and its point
C17_NormalizationTotal ==
    \A d \in OddDocs, nowT \in NowTimes :
        /\ ~Chunk(FeedState, d, nowT).threw
        /\ \A u \in ValidUpdates :
              Produces(u, Chunks(FeedState, <<d, u.doc>>, nowT).st)

\* Math.max over the timestamps of a log of applied records
RECURSIVE MaxTs(_)
MaxTs(log) ==
    IF Len(log) = 1 THEN log[1].point.t
    ELSE MathMax(MaxTs(SubSeq(log, 1, Len(log) - 1)), log[Len(log)].point.t)

\* C18 (SpecFeed), as claimed: the lastTs of an instrument is the maximum
\* of the timestamps of the records applied to it
C18_LastTsIsMax ==
    \A sym \in DOMAIN rows : rows[sym].lastTs = MaxTs(pushed[sym])

\* C19 (SpecFeed), as claimed: in every history each point's t is less than
\* or equal to the t of the point after it
C19_HistoryOrdered ==
    \A sym \in DOMAIN histRef :
        \A i \in 1..(Len(histRef[sym]) - 1) :
            NumGE(histRef[sym][i + 1].t, histRef[sym][i].t)

\* what the holder of the returned series reads now: the live buffer when
\* the series is that very array, else the array as it was returned
SeriesNow ==
    IF decAlias \in DOMAIN histRef THEN histRef[decAlias] ELSE decOut

RECURSIVE IsSubsequence(_, _)
IsSubsequence(out, arr) ==
    IF out = <<>> THEN TRUE
    ELSE IF arr = <<>> THEN FALSE
    ELSE IF Head(out) = Head(arr) THEN IsSubsequence(Tail(out), Tail(arr))
    ELSE IsSubsequence(out, Tail(arr))

\* C22 (SpecDec): the output of a decimation holds points of the input
\* only, each at most once and in the order of the input, no more of them
\* than the input has, none with a timestamp that is not finite; and the
\* empty input gives the empty output.
C22_Subsequence ==
    decPc = "done" =>
        /\ IsSubsequence(decOut, decIn)
        /\ Len(decOut) <= Len(decIn)
        /\ \A k \in 1..Len(decOut) : IsFinite(decOut[k].t)
        /\ decIn = <<>> => decOut = <<>>

\* C22 witness: of three points the second had no finite timestamp and
\* the other two were kept in their order
C22_DroppedMiddle ==
    /\ decPc = "done"
    /\ Len(decIn) = 3
    /\ ~IsFinite(decIn[2].t)
    /\ decOut = <<decIn[1], decIn[3]>>

\* an array in chronological order: finite timestamps that never decrease
Chronological(arr) ==
    \A i \in 1..Len(arr) :
        /\ IsFinite(arr[i].t)
        /\ i > 1 => arr[i - 1].t.n <= arr[i].t.n

\* the points of the input before the i-th that are at most two minutes old
RecentBefore(i) == {j \in 1..(i - 1) : decNow - decIn[j].t.n <= 120000}

\* the largest element of a non-empty set of numbers
MaxOf(S) == CHOOSE m \in S : \A n \in S : n <= m

\* C27 (SpecDec): recent detail.  Of an input in chronological order,
\* every point at most two minutes old that is the first such point, or at
\* least 1000 ms after the such point before it, is in the output.
C27_RecentDetailKept ==
    decPc = "done" /\ Chronological(decIn) =>
        \A i \in 1..Len(decIn) :
            /\ decNow - decIn[i].t.n <= 120000
            /\ \/ RecentBefore(i) = {}
               \/ decIn[i].t.n - decIn[MaxOf(RecentBefore(i))].t.n >= 1000
            => \E k \in 1..Len(decOut) : decOut[k] = decIn[i]

\* C27 witness: three points one second apart, the last of them in the
\* future, are all kept
C27_SecondApartKept ==
    /\ decPc = "done"
    /\ decNow = 4000000
    /\ Len(decIn) = 3
    /\ decIn[1].t = Num(3999000)
    /\ decIn[2].t = Num(4000000)
    /\ decIn[3].t = Num(4001000)
    /\ decOut = decIn

\* ages next to the horizons and before the present
BoundaryAges ==
    {-1000, 0, 119999, 120000, 120001, 599999, 600000, 600001, 3599999,
     3600000, 3600001, 4000000}

\* C28 (SpecDec): tiers by age.  The tier of every point of the input
\* with a finite timestamp, and of every age next to a horizon, is one of
\* the four rules, and its interval is 1000 ms up to an age of 120000 ms
\* (ages below zero too), 5000 ms up to 600000, 30000 ms up to 3600000 and
\* 300000 ms beyond.
C28_TierByAge ==
    decPc = "done" =>
        \A age \in BoundaryAges
                   \cup {decNow - decIn[i].t.n :
                           i \in {j \in 1..Len(decIn) : IsFinite(decIn[j].t)}} :
            /\ Tier(age) \in 1..Len(rules)
            /\ Interval(Tier(age)) = SpacingAtAge(age)

\* C28 witness: an input with a point exactly one hour old and a point
\* exactly ten minutes old, both kept
C28_PointsOnHorizons ==
    /\ decPc = "done"
    /\ decNow = 4000000
    /\ Len(decIn) = 2
    /\ decIn[1].t = Num(400000)
    /\ decIn[2].t = Num(3400000)
    /\ Len(decOut) = 2

EndpointOf(loc) ==
    IF loc.ws \notin {Null, Str("")}
    THEN loc.ws.s
    ELSE IF loc.protocol = "https:"
         THEN "wss://" \o loc.host \o "/stream"
         ELSE "ws://localhost:9080/stream"

Names(v) ==
    \/ v.k = "str" /\ v.s # ""
    \/ v.k = "num" /\ v.n # 0
    \/ v.k = "bool" /\ v.n = 1

\* a data or payload field that is given: any value other than null
Given(d) == d.k \notin {"undef", "null"}

\* the top-level keys that are left for a flat document
FlatKeys(msg) == DOMAIN msg.top \ {"topic", "type", "channel", "version"}

\* C25 (SpecShape): the topic is the topic field if it names one, else the
\* type field, else the channel field, else ""; the field payload is the
\* data field if given, else the payload field, else the top-level keys
\* without topic, type, channel and version
C25_EnvelopeShape ==
    normalized.pc = "normalized" =>
        LET msg == normalized.msg
            top == msg.top
        IN  /\ normalized.topic =
                  IF Names(Get(top, "topic")) THEN top["topic"]
                  ELSE IF Names(Get(top, "type")) THEN top["type"]
                  ELSE IF Names(Get(top, "channel")) THEN top["channel"]
                  ELSE Str("")
            /\ Given(msg.data) => normalized.dataRaw = msg.data
            /\ ~Given(msg.data) /\ Given(msg.payload) =>
                  normalized.dataRaw = msg.payload
            /\ ~Given(msg.data) /\ ~Given(msg.payload) =>
                  /\ normalized.dataRaw.k = "obj"
                  /\ DOMAIN normalized.dataRaw.f = FlatKeys(msg)
                  /\ \A x \in FlatKeys(msg) : normalized.dataRaw.f[x] = top[x]

\* C25 witness: a document without topic, with a type, a channel, a null
\* data and a payload was normalized to the type and the payload
C25_TypeAndPayload ==
    /\ normalized.pc = "normalized"
    /\ "topic" \notin DOMAIN normalized.msg.top
    /\ "channel" \in DOMAIN normalized.msg.top
    /\ normalized.msg.data = NullData
    /\ normalized.topic = Str("inav.tick")
    /\ normalized.dataRaw = normalized.msg.payload
    /\ normalized.dataRaw.k = "obj"

\* the timestamp a document carries: the payload's ts if it is not null,
\* else the envelope's
CarriedTs(msg, dataRaw) ==
    IF Field(dataRaw, "ts").k \notin {"undef", "null"} THEN Field(dataRaw, "ts")
    ELSE Get(msg.top, "ts")

\* the resolved timestamp is the carried number, or the parsed carried
\* string, or the current time
ResolvedAsStated ==
    LET tsVal == CarriedTs(normalized.msg, normalized.dataRaw)
    IN  CASE tsVal.k = "num" -> normalized.ts = tsVal
          [] tsVal.k = "str" -> normalized.ts = DateParse(tsVal.s)
          [] OTHER -> normalized.ts \in NowTimes

RECURSIVE Pushes(_)
Pushes(syms) ==
    IF syms = {} THEN 0
    ELSE LET s == CHOOSE x \in syms : TRUE
         IN  Len(pushed[s]) + Pushes(syms \ {s})

\* C29 (SpecIdent): a record is applied to the instrument named by the
\* first given of security_id, symbol, ticker (prices.*) or etf_id,
\* security_id, symbol, ticker (inav.*), and to "UNKNOWN" when none is
\* given; no record is dropped, and every instrument that got a record,
\* "UNKNOWN" too, has a snapshot and a history that ends with its last point
C29_Identification ==
    /\ \A s \in DOMAIN pushed, u \in Identified :
            (\E k \in 1..Len(pushed[s]) : pushed[s][k].patch[u.pt] = u.v)
                => s = u.sym
    /\ Pushes(DOMAIN pushed) = debug.count
    /\ \A s \in DOMAIN pushed :
            /\ s \in DOMAIN rows
            /\ s \in DOMAIN histRef
            /\ IsFinite(rows[s].lastPrice) \/ IsFinite(rows[s].inav)
            /\ histRef[s] # <<>>
            /\ histRef[s][Len(histRef[s])] = pushed[s][Len(pushed[s])].point

\* C29 witness: records without any identifying field, with a ticker only
\* and with all four fields were applied to UNKNOWN, K and E
C29_UnknownKept ==
    /\ {"UNKNOWN", "K", "E"} \subseteq DOMAIN rows
    /\ rows["UNKNOWN"].lastPrice = Num(14)
    /\ histRef["UNKNOWN"] # <<>>

\* C30 (SpecSession): the instruments with a snapshot are those with a
\* history buffer, which are those a record was accepted for; no buffer is
\* empty; and no step, a reconnect or an eviction included, removes an
\* instrument
C30_LazyNeverRemoved ==
    /\ [](/\ DOMAIN rows = DOMAIN histRef
          /\ DOMAIN latestRef = DOMAIN histRef
          /\ DOMAIN pushed = DOMAIN histRef
          /\ \A s \in DOMAIN histRef : histRef[s] # <<>> /\ pushed[s] # <<>>)
    /\ [][/\ DOMAIN rows \subseteq DOMAIN rows'
          /\ DOMAIN histRef \subseteq DOMAIN histRef']_vars

\* C30 witness: on the third socket of the session the buffer of A has
\* evicted a point, and A still has its snapshot and its buffer
C30_EvictedAfterReconnect ==
    /\ sockets >= 3
    /\ wsRef = "open"
    /\ "A" \in DOMAIN rows
    /\ Len(pushed["A"]) > MAX_POINTS
    /\ Len(histRef["A"]) = MAX_POINTS

\* a step that handles one record and accepts it
AcceptsOne == debug'.count = debug.count + 1 /\ pushed' # pushed

\* the row, the push log and the buffer an instrument has, if any
RowOf(sym) == IF sym \in DOMAIN rows THEN rows[sym] ELSE EmptyRow
LogOf(sym) == IF sym \in DOMAIN pushed THEN pushed[sym] ELSE <<>>
BufOf(sym) == IF sym \in DOMAIN histRef THEN histRef[sym] ELSE <<>>

\* new is old with one point appended, the oldest point evicted or not
AppendedOne(old, new, point) ==
    /\ new # <<>>
    /\ new[Len(new)] = point
    /\ \E d \in {0, 1} :
          /\ Len(new) = Len(old) + 1 - d
          /\ \A i \in 1..(Len(new) - 1) : new[i] = old[i + d]

\* C31 (SpecFeed): a step that accepts one record appends one point to the
\* history of one instrument S; a prices record leaves S's inav, bandUpper,
\* bandLower and inavTs as they were, an inav record leaves S's lastPrice
\* and priceTs as they were; every other instrument keeps its row, its
\* buffer and its forward-fill snapshot
C31_FrameOfAcceptedRecord ==
    [][AcceptsOne =>
        \E S \in DOMAIN pushed' :
            LET log == pushed'[S]
                last == log[Len(log)]
                kept == IF IsFinite(last.patch.price)
                        THEN {"inav", "bandUpper", "bandLower", "inavTs"}
                        ELSE {"lastPrice", "priceTs"}
            IN  /\ Len(log) = Len(LogOf(S)) + 1
                /\ SubSeq(log, 1, Len(log) - 1) = LogOf(S)
                /\ AppendedOne(BufOf(S), histRef'[S], last.point)
                /\ \A f \in kept : rows'[S][f] = RowOf(S)[f]
                /\ DOMAIN rows' = DOMAIN rows \cup {S}
                /\ DOMAIN histRef' = DOMAIN histRef \cup {S}
                /\ \A o \in DOMAIN rows' \ {S} :
                      /\ rows'[o] = rows[o]
                      /\ histRef'[o] = histRef[o]
                      /\ latestRef'[o] = latestRef[o]
                      /\ pushed'[o] = pushed[o]]_vars

\* C31 witness: A got an inav record and then a prices record, beside a
\* record of B, and A's row holds both values
C31_PriceAfterInavBesideB ==
    /\ "B" \in DOMAIN rows
    /\ "A" \in DOMAIN rows
    /\ Len(pushed["A"]) = 2
    /\ pushed["A"][1].patch.inav = Num(20)
    /\ pushed["A"][2].patch.price = Num(10)
    /\ rows["A"].inav = Num(20)
    /\ rows["A"].lastPrice = Num(10)

\* C32 (SpecConn): while the status is "open" the attempt counter is 0, and
\* the counter is never negative
C32_OpenMeansNoAttempts ==
    /\ status = "open" => backoffRef.attempt = 0
    /\ backoffRef.attempt >= 0

\* C32 witness: the status is "open" on the fourth socket of the session,
\* after three cycles that raised the counter
C32_OpenOnFourthSocket ==
    status = "open" /\ sockets = 4 /\ backoffRef.attempt = 0

\* C33 (SpecConn): at most one timeout is pending and at most one socket is
\* connecting or open; a timeout is pending only while the status is
\* "closed", and never beside a live socket
C33_NoOverlap ==
    /\ timeouts \in {0, 1}
    /\ live \in {0, 1}
    /\ timeouts = 1 => status = "closed" /\ live = 0
    /\ timeouts = 1 <=> backoffRef.timer
    /\ live = 1 <=> wsRef \in {"connecting", "open"}

\* C33 witness: the second socket of the session has closed and the timer
\* for the third is the one pending timeout
C33_TimerAfterSecondClose ==
    /\ timeouts = 1
    /\ live = 0
    /\ sockets = 2
    /\ wsRef = "closed"
    /\ status = "closed"

\* C34 (SpecFeed): the latest point of every instrument's buffer carries
\* the lastPrice, inav, bandUpper and bandLower of its row, an absent field
\* being absent in both
C34_SnapshotAgreesWithHistory ==
    \A sym \in DOMAIN rows :
        /\ sym \in DOMAIN histRef
        /\ histRef[sym] # <<>>
        /\ LET p == histRef[sym][Len(histRef[sym])]
           IN  /\ p.price = rows[sym].lastPrice
               /\ p.inav = rows[sym].inav
               /\ p.bu = rows[sym].bandUpper
               /\ p.bl = rows[sym].bandLower

\* C34 witness: A got an inav record with bands, then an inav record
\* without bands and a prices record; its row holds the four values
C34_BandsCarried ==
    /\ "A" \in DOMAIN rows
    /\ rows["A"].inav = Num(20)
    /\ rows["A"].bandUpper = Num(22)
    /\ rows["A"].bandLower = Num(19)
    /\ rows["A"].lastPrice = Num(10)

\* C35 (SpecFeed): every row has a priceTs or an inavTs, and its lastTs is
\* greater than or equal to each of the two it has
C35_LastTsCoversBoth ==
    \A sym \in DOMAIN rows :
        LET r == rows[sym]
        IN  /\ r.priceTs # Undef \/ r.inavTs # Undef
            /\ r.priceTs # Undef => NumGE(r.lastTs, r.priceTs)
            /\ r.inavTs # Undef => NumGE(r.lastTs, r.inavTs)

\* C36 (SpecAgain): decimating the output of a decimation again, at the
\* same current time, gives that output, point for point
C36_Idempotent ==
    [][decPc = "done" /\ decPc' = "again" => decOut' = decOut]_vars

\* C36 witness: the first call dropped the middle one of three points with
\* finite timestamps, and the second call returned the two that were left
C36_TwoOfThreeTwice ==
    /\ decPc = "again"
    /\ Len(decIn) = 3
    /\ \A i \in 1..3 : IsFinite(decIn[i].t)
    /\ decOut = <<decIn[1], decIn[3]>>

\* C37 (SpecConn): from the cleanup on the status is "closing", and no step
\* changes it
C37_ClosingIsFinal ==
    /\ [](cancelled => status = "closing")
    /\ [][cancelled => status' = status]_vars

\* C37 witness: the cleanup ran while a later socket of the session was
\* live, the close event of that socket has been delivered since, and the
\* status is still "closing"
C37_ClosingAfterLateClose ==
    /\ cancelled
    /\ status = "closing"
    /\ wsRef = "closed"
    /\ sockets >= 2
    /\ debug.lastError # "onclose"

====
